---- MODULE Spec2Model ----
(***************************************************************************)
(* A model of app.py, the WSDL-to-OpenAPI utility: the XSD-to-JSON-Schema  *)
(* compiler (map_xsd_to_json_type, zeep_type_to_json_schema), the editor's *)
(* json.dumps / json.loads round, the document assembler and the three     *)
(* stage session pipeline driven by Streamlit script runs.                 *)
(***************************************************************************)
EXTENDS Integers, Sequences, FiniteSets, TLC

\* ------------------------------------------------------------------ bounds

\* The interpreter's recursion limit (the number of nested frames of
\* zeep_type_to_json_schema a call chain may hold), scaled down.
MaxDepth == 3
\* Temporary directories the model lets pile up before it stops adding more.
MaxDirs == 2

\* ------------------------------------------------------------ JSON values

\* A JSON value as Python holds it: k is the Python type, s the text of a
\* str or the literal of a number, items the (key, value) pairs of a dict in
\* insertion order or the members of a list.
JStr(s) == [k |-> "str", s |-> s, items |-> <<>>]
JNum(s) == [k |-> "num", s |-> s, items |-> <<>>]
JArr(vs) == [k |-> "arr", s |-> "", items |-> vs]
JObj(ps) == [k |-> "obj", s |-> "", items |-> ps]
Pair(key, val) == [key |-> key, val |-> val]

\* d[key]: the index of key among the pairs of a dict, 0 when absent.
KeyIndex(ps, key) ==
    IF \E i \in 1..Len(ps) : ps[i].key = key
    THEN CHOOSE i \in 1..Len(ps) : ps[i].key = key
    ELSE 0

\* d[key] = val on a Python dict: an existing key keeps its place and takes
\* the new value, a new key goes last.
DictSet(ps, key, val) ==
    IF KeyIndex(ps, key) # 0
    THEN [ps EXCEPT ![KeyIndex(ps, key)] = Pair(key, val)]
    ELSE Append(ps, Pair(key, val))

HasKey(v, key) == v.k = "obj" /\ KeyIndex(v.items, key) # 0
Get(v, key) == v.items[KeyIndex(v.items, key)].val
Keys(v) == [i \in 1..Len(v.items) |-> v.items[i].key]

\* -------------------------------------------------- map_xsd_to_json_type

\* str.lower() on the characters type names are written with.
LowerChar(c) ==
    CASE c = "A" -> "a" [] c = "B" -> "b" [] c = "C" -> "c" [] c = "D" -> "d"
      [] c = "E" -> "e" [] c = "F" -> "f" [] c = "G" -> "g" [] c = "H" -> "h"
      [] c = "I" -> "i" [] c = "J" -> "j" [] c = "K" -> "k" [] c = "L" -> "l"
      [] c = "M" -> "m" [] c = "N" -> "n" [] c = "O" -> "o" [] c = "P" -> "p"
      [] c = "Q" -> "q" [] c = "R" -> "r" [] c = "S" -> "s" [] c = "T" -> "t"
      [] c = "U" -> "u" [] c = "V" -> "v" [] c = "W" -> "w" [] c = "X" -> "x"
      [] c = "Y" -> "y" [] c = "Z" -> "z" [] OTHER -> c
Lower(cs) == [i \in 1..Len(cs) |-> LowerChar(cs[i])]

\* needle in hay
Contains(hay, needle) ==
    \E i \in 1..(Len(hay) - Len(needle) + 1) :
        SubSeq(hay, i, i + Len(needle) - 1) = needle

KwInt == <<"i", "n", "t">>
KwLong == <<"l", "o", "n", "g">>
KwShort == <<"s", "h", "o", "r", "t">>
KwInteger == <<"i", "n", "t", "e", "g", "e", "r">>
KwDecimal == <<"d", "e", "c", "i", "m", "a", "l">>
KwFloat == <<"f", "l", "o", "a", "t">>
KwDouble == <<"d", "o", "u", "b", "l", "e">>
KwNumber == <<"n", "u", "m", "b", "e", "r">>
KwBoolean == <<"b", "o", "o", "l", "e", "a", "n">>
KwDatetime == <<"d", "a", "t", "e", "t", "i", "m", "e">>
KwDate == <<"d", "a", "t", "e">>

TypeOnly(t) == JObj(<<Pair("type", JStr(t))>>)
StringSchema == TypeOnly("string")
DateTimeSchema ==
    JObj(<<Pair("type", JStr("string")), Pair("format", JStr("date-time"))>>)

\* map_xsd_to_json_type with the first two tests swapped: the number
\* keywords are looked for before the integer keywords.
map_xsd_to_json_type_NumberFirst(xsd_type_name) ==
    LET xtype == Lower(xsd_type_name) IN
    IF \E x \in {KwDecimal, KwFloat, KwDouble, KwNumber} : Contains(xtype, x)
    THEN TypeOnly("number")
    ELSE IF \E x \in {KwInt, KwLong, KwShort, KwInteger} : Contains(xtype, x)
    THEN TypeOnly("integer")
    ELSE IF Contains(xtype, KwBoolean)
    THEN TypeOnly("boolean")
    ELSE IF Contains(xtype, KwDatetime) \/ Contains(xtype, KwDate)
    THEN DateTimeSchema
    ELSE StringSchema

map_xsd_to_json_type(xsd_type_name) ==
    LET xtype == Lower(xsd_type_name) IN
    IF \E x \in {KwInt, KwLong, KwShort, KwInteger} : Contains(xtype, x)
    THEN TypeOnly("integer")
    ELSE IF \E x \in {KwDecimal, KwFloat, KwDouble, KwNumber} : Contains(xtype, x)
    THEN TypeOnly("number")
    ELSE IF Contains(xtype, KwBoolean)
    THEN TypeOnly("boolean")
    ELSE IF Contains(xtype, KwDatetime) \/ Contains(xtype, KwDate)
    THEN DateTimeSchema
    ELSE StringSchema

\* ------------------------------------------------------------ type graph

\* An occurrence bound as zeep hands it over: an int, or a str such as
\* 'unbounded'.
OccInt(n) == [int |-> TRUE, n |-> n, s |-> ""]
OccStr(s) == [int |-> FALSE, n |-> 0, s |-> s]
Unbounded == OccStr("unbounded")
\* Python truthiness of an occurrence bound
Truthy(o) == IF o.int THEN o.n # 0 ELSE o.s # ""
\* int(o) raises ValueError on a str that is no number
IntRaises(o) == ~o.int /\ o.s \notin {"0", "1", "2"}
IntOf(o) ==
    IF o.int THEN o.n
    ELSE CASE o.s = "1" -> 1 [] o.s = "2" -> 2 [] OTHER -> 0

\* The test of line 50 without its isinstance branch: only 'unbounded'
\* makes an array.
Repeatable_UnboundedOnly(max_occurs) ==
    Truthy(max_occurs) /\ max_occurs = Unbounded

\* max_occurs and (max_occurs == 'unbounded' or
\*                 (isinstance(max_occurs, int) and max_occurs > 1))
Repeatable(max_occurs) ==
    Truthy(max_occurs) /\ (max_occurs = Unbounded \/ (max_occurs.int /\ max_occurs.n > 1))

\* The absent type reference (None)
None == "None"

\* An attribute (name, attr_obj); has_type is FALSE for a malformed
\* attr_obj without the .type the compiler reads.
Attr(name, type, has_type) == [name |-> name, type |-> type, has_type |-> has_type]
\* A child element (name, element); has_type as for attributes.
Elem(name, type, min_occurs, max_occurs, has_type) ==
    [name |-> name, type |-> type, min_occurs |-> min_occurs,
     max_occurs |-> max_occurs, has_type |-> has_type]
\* A type object: str(type), its attributes and its child elements.
TypeNode(name, attributes, elements) ==
    [name |-> name, attributes |-> attributes, elements |-> elements]

\* ---------------------------------------------- zeep_type_to_json_schema

\* An exception travelling up from a call, in place of its return value.
Raised == [k |-> "raise", s |-> "", items |-> <<>>]

EmptyObject ==
    JObj(<<Pair("type", JStr("object")), Pair("properties", JObj(<<>>))>>)
ValueSchema ==
    JObj(<<Pair("type", JStr("string")),
           Pair("description", JStr("The text content of the element"))>>)
ArrayOf(child_schema) ==
    JObj(<<Pair("type", JStr("array")), Pair("items", child_schema)>>)

\* for attr_name, attr_obj in attributes:
\*     properties[attr_name] = map_xsd_to_json_type(attr_obj.type)
\* from attribute i on; raised when attr_obj.type raises AttributeError.
RECURSIVE AttrLoop(_, _, _)
AttrLoop(attributes, i, properties) ==
    IF i > Len(attributes)
    THEN [raised |-> FALSE, properties |-> properties]
    ELSE IF ~attributes[i].has_type
    THEN [raised |-> TRUE, properties |-> properties]
    ELSE AttrLoop(attributes, i + 1,
                  DictSet(properties, attributes[i].name,
                          map_xsd_to_json_type(attributes[i].type)))

\* AfterChild with properties.setdefault(name, ...) in place of the
\* assignment: a property already there, from an attribute, is kept.
AfterChild_KeepsExisting(element, child_schema, properties, required) ==
    LET props == IF KeyIndex(properties, element.name) # 0 THEN properties
                 ELSE DictSet(properties, element.name,
                              IF Repeatable(element.max_occurs)
                              THEN ArrayOf(child_schema) ELSE child_schema)
    IN  IF Truthy(element.min_occurs) /\ IntRaises(element.min_occurs)
        THEN [raised |-> TRUE, properties |-> props, required |-> required]
        ELSE [raised |-> FALSE, properties |-> props,
              required |-> IF Truthy(element.min_occurs) /\ IntOf(element.min_occurs) > 0
                           THEN Append(required, element.name) ELSE required]

\* The body of the element loop after the recursive call returned
\* child_schema: the property (array-wrapped when repeatable), then the
\* min_occurs test, whose int() may raise.
AfterChild(element, child_schema, properties, required) ==
    LET props == DictSet(properties, element.name,
                         IF Repeatable(element.max_occurs)
                         THEN ArrayOf(child_schema) ELSE child_schema)
    IN  IF Truthy(element.min_occurs) /\ IntRaises(element.min_occurs)
        THEN [raised |-> TRUE, properties |-> props, required |-> required]
        ELSE [raised |-> FALSE, properties |-> props,
              required |-> IF Truthy(element.min_occurs) /\ IntOf(element.min_occurs) > 0
                           THEN Append(required, element.name) ELSE required]

\* The schema a complex node returns once both loops ran through.
FinishSchema(node, properties, required) ==
    LET props == IF node.attributes # <<>> /\ node.elements = <<>>
                 THEN DictSet(properties, "_value", ValueSchema)
                 ELSE properties
        schema == <<Pair("type", JStr("object")), Pair("properties", JObj(props))>>
    IN  IF required # <<>>
        THEN JObj(DictSet(schema, "required",
                          JArr([i \in 1..Len(required) |-> JStr(required[i])])))
        ELSE JObj(schema)

RECURSIVE zeep_type_to_json_schema(_, _, _)
RECURSIVE ElemLoop(_, _, _, _, _, _)

\* for name, element in elements: ... from element i on, in a frame at
\* `depth`. element.type raises on a malformed element; the recursive call
\* raises RecursionError when no frame is left.
ElemLoop(g, elements, i, properties, required, depth) ==
    IF i > Len(elements)
    THEN [raised |-> FALSE, properties |-> properties, required |-> required]
    ELSE LET element == elements[i]
             child_schema == IF element.has_type
                             THEN zeep_type_to_json_schema(g, element.type, depth + 1)
                             ELSE Raised
         IN  IF child_schema = Raised
             THEN [raised |-> TRUE, properties |-> properties, required |-> required]
             ELSE LET a == AfterChild(element, child_schema, properties, required)
                  IN  IF a.raised THEN a
                      ELSE ElemLoop(g, elements, i + 1, a.properties, a.required, depth)

\* zeep_type_to_json_schema(zeep_type) on type graph g, called in the frame
\* number `depth` of the call chain.
zeep_type_to_json_schema(g, zeep_type, depth) ==
    IF depth > MaxDepth THEN Raised
    ELSE IF zeep_type = None THEN EmptyObject
    ELSE LET node == g[zeep_type] IN
         IF node.elements = <<>> /\ node.attributes = <<>>
         THEN map_xsd_to_json_type(node.name)
         ELSE LET a == AttrLoop(node.attributes, 1, <<>>) IN
              IF a.raised THEN StringSchema
              ELSE LET e == ElemLoop(g, node.elements, 1, a.properties, <<>>, depth) IN
                   IF e.raised THEN StringSchema
                   ELSE FinishSchema(node, e.properties, e.required)

\* ------------------------------------------------- json.dumps, json.loads

\* A text as the sequence of its JSON tokens (white space left out).
Tok(t, v) == [t |-> t, v |-> v]
P(c) == Tok("p", c)

\* str(v) in place of json.dumps(v): Python's repr of the value, whose
\* strings are in single quotes.
RECURSIVE Dumps_Repr(_)
RECURSIVE ReprItems(_, _, _)
ReprItems(items, i, is_dict) ==
    IF i > Len(items) THEN <<>>
    ELSE (IF i > 1 THEN <<P(",")>> ELSE <<>>)
         \o (IF is_dict
             THEN <<Tok("sq", items[i].key), P(":")>>
                  \o Dumps_Repr(items[i].val)
             ELSE Dumps_Repr(items[i]))
         \o ReprItems(items, i + 1, is_dict)
Dumps_Repr(v) ==
    CASE v.k = "arr" -> <<P("[")>> \o ReprItems(v.items, 1, FALSE)
                        \o <<P("]")>>
      [] v.k = "obj" -> <<P("{")>> \o ReprItems(v.items, 1, TRUE)
                        \o <<P("}")>>
      [] OTHER -> <<Tok("sq", v.s)>>

RECURSIVE Dumps(_)
RECURSIVE DumpsItems(_, _, _)
\* The members of a list or dict from member i on, comma separated.
DumpsItems(items, i, is_dict) ==
    IF i > Len(items) THEN <<>>
    ELSE (IF i > 1 THEN <<P(",")>> ELSE <<>>)
         \o (IF is_dict
             THEN <<Tok("str", items[i].key), P(":")>> \o Dumps(items[i].val)
             ELSE Dumps(items[i]))
         \o DumpsItems(items, i + 1, is_dict)

\* json.dumps(v, indent=2)
Dumps(v) ==
    CASE v.k = "str" -> <<Tok("str", v.s)>>
      [] v.k = "num" -> <<Tok("num", v.s)>>
      [] v.k = "lit" -> <<Tok("lit", v.s)>>
      [] v.k = "arr" -> <<P("[")>> \o DumpsItems(v.items, 1, FALSE) \o <<P("]")>>
      [] v.k = "obj" -> <<P("{")>> \o DumpsItems(v.items, 1, TRUE) \o <<P("}")>>

JLit(s) == [k |-> "lit", s |-> s, items |-> <<>>]
ParseFail == [ok |-> FALSE, val |-> JLit("null"), next |-> 0]
ParseOk(val, next) == [ok |-> TRUE, val |-> val, next |-> next]
IsTok(toks, i, tok) == i <= Len(toks) /\ toks[i] = tok

RECURSIVE ParseValue(_, _)
RECURSIVE ParseElems(_, _, _)
RECURSIVE ParseMembers(_, _, _)

\* The rest of a list after "[" or ",": a value, then "," or "]".
ParseElems(toks, i, acc) ==
    LET v == ParseValue(toks, i) IN
    IF ~v.ok THEN ParseFail
    ELSE IF IsTok(toks, v.next, P("]")) THEN ParseOk(JArr(Append(acc, v.val)), v.next + 1)
    ELSE IF IsTok(toks, v.next, P(",")) THEN ParseElems(toks, v.next + 1, Append(acc, v.val))
    ELSE ParseFail

\* The rest of a dict after "{" or ",": "key" : value, then "," or "}". A
\* repeated key keeps its first place and takes the last value.
ParseMembers(toks, i, acc) ==
    IF ~(i <= Len(toks) /\ toks[i].t = "str" /\ IsTok(toks, i + 1, P(":")))
    THEN ParseFail
    ELSE LET v == ParseValue(toks, i + 2) IN
         IF ~v.ok THEN ParseFail
         ELSE LET acc2 == DictSet(acc, toks[i].v, v.val) IN
              IF IsTok(toks, v.next, P("}")) THEN ParseOk(JObj(acc2), v.next + 1)
              ELSE IF IsTok(toks, v.next, P(",")) THEN ParseMembers(toks, v.next + 1, acc2)
              ELSE ParseFail

ParseValue(toks, i) ==
    IF i > Len(toks) THEN ParseFail
    ELSE CASE toks[i].t = "str" -> ParseOk(JStr(toks[i].v), i + 1)
           [] toks[i].t = "num" -> ParseOk(JNum(toks[i].v), i + 1)
           [] toks[i].t = "lit" -> ParseOk(JLit(toks[i].v), i + 1)
           [] toks[i] = P("[") ->
                IF IsTok(toks, i + 1, P("]")) THEN ParseOk(JArr(<<>>), i + 2)
                ELSE ParseElems(toks, i + 1, <<>>)
           [] toks[i] = P("{") ->
                IF IsTok(toks, i + 1, P("}")) THEN ParseOk(JObj(<<>>), i + 2)
                ELSE ParseMembers(toks, i + 1, <<>>)
           [] OTHER -> ParseFail

\* json.loads(text): ok is FALSE when it raises JSONDecodeError.
Loads(text) ==
    LET v == ParseValue(text, 1) IN
    IF v.ok /\ v.next = Len(text) + 1 THEN v ELSE ParseFail

\* ------------------------------------------------------------------ state

VARIABLES
    \* st.session_state
    step, op_data, final_spec,
    \* widget state Streamlit keeps between script runs: the sidebar's file
    \* uploader, the main-WSDL selectbox, the editor's checkbox and text areas
    uploaded_files, main_wsdl, widgets,
    \* the last script run: its updated_data, the st.warning / st.error
    \* messages it showed, and whether it ended in st.rerun(), so that the
    \* next run is the rerun
    updated_data, messages, rerun,
    \* temporary directories made by tempfile.mkdtemp() and not yet removed
    live_dirs,
    \* one call of zeep_type_to_json_schema, run frame by frame: the type
    \* graph, the type it is called on, the call stack, the value returned
    graph, root, stack, result,
    \* one call of map_xsd_to_json_type: its argument, the value returned
    xsd_type_name, mapped

session_vars == <<step, op_data, final_spec, uploaded_files, main_wsdl, widgets,
                  updated_data, messages, rerun, live_dirs>>
compiler_vars == <<graph, root, stack, result>>
mapper_vars == <<xsd_type_name, mapped>>
vars == <<step, op_data, final_spec, uploaded_files, main_wsdl, widgets,
          updated_data, messages, rerun, live_dirs,
          graph, root, stack, result, xsd_type_name, mapped>>

\* Python's None
PyNone == [k |-> "none", s |-> "", items |-> <<>>]

\* ------------------------------------------------- the type graphs explored

XsInt == <<"x", "s", ":", "i", "n", "t">>
XsString == <<"x", "s", ":", "s", "t", "r", "i", "n", "g">>
XsBoolean == <<"x", "s", ":", "b", "o", "o", "l", "e", "a", "n">>
TnsNode == <<"t", "n", "s", ":", "N", "o", "d", "e">>
TnsItem == <<"t", "n", "s", ":", "I", "t", "e", "m">>

\* Child elements per complex type in the graphs explored.
MaxElems == 2

\* The child elements a generated type draws from: a self reference, a
\* reference to the second type, primitives with each occurrence shape, an
\* element without a type, the two malformed shapes, and a required string.
ElemChoices ==
    <<Elem("a", "T1", OccInt(1), OccInt(1), TRUE),
      Elem("b", "T2", OccInt(0), Unbounded, TRUE),
      Elem("a", "Int", OccInt(1), OccInt(1), TRUE),
      Elem("b", "Int", OccInt(0), Unbounded, TRUE),
      Elem("b", "Str", OccInt(0), OccInt(2), TRUE),
      Elem("c", None, OccInt(0), OccInt(1), TRUE),
      Elem("c", "Str", OccStr("x"), OccInt(1), TRUE),
      Elem("d", None, OccInt(1), OccInt(1), FALSE),
      Elem("a", "Str", OccInt(1), OccInt(1), TRUE)>>
\* The attribute lists a generated type draws from.
AttrChoices ==
    <<<<>>,
      <<Attr("a", XsBoolean, TRUE)>>,
      <<Attr("e", XsInt, TRUE), Attr("f", XsString, FALSE)>>,
      <<Attr("b", XsBoolean, TRUE)>>>>
\* The shapes of the second type: a leaf with an attribute, a reference back
\* to the first type, a reference to itself.
SecondChoices ==
    <<TypeNode(TnsItem, <<Attr("id", XsInt, TRUE)>>, <<>>),
      TypeNode(TnsItem, <<>>, <<Elem("up", "T1", OccInt(1), OccInt(1), TRUE)>>),
      TypeNode(TnsItem, <<>>, <<Elem("next", "T2", OccInt(0), OccInt(1), TRUE),
                                Elem("n", "Int", OccInt(1), OccInt(1), TRUE)>>)>>

ElemSeqs ==
    UNION {[1..n -> 1..Len(ElemChoices)] : n \in 0..MaxElems}
MakeGraph(elem_ix, attr_ix, second_ix) ==
    [t \in {"T1", "T2", "Int", "Str"} |->
        CASE t = "T1" -> TypeNode(TnsNode, AttrChoices[attr_ix],
                                  [i \in 1..Len(elem_ix) |-> ElemChoices[elem_ix[i]]])
          [] t = "T2" -> SecondChoices[second_ix]
          [] t = "Int" -> TypeNode(XsInt, <<>>, <<>>)
          [] t = "Str" -> TypeNode(XsString, <<>>, <<>>)]

\* --------------------------- zeep_type_to_json_schema, one frame at a time

NoResult == PyNone
Frame(type) ==
    [type |-> type, pc |-> "enter", i |-> 1, properties |-> <<>>,
     required |-> <<>>, value |-> PyNone]
Top == stack[Len(stack)]
SetTop(f) == [stack EXCEPT ![Len(stack)] = f]
\* The top frame leaves with `value` (a return statement, or the except
\* branch returning the string schema).
Returning(value) == SetTop([Top EXCEPT !.pc = "ret", !.value = value])

\* Lines 26-39: the absent reference, the primitive, or on to the loops.
CEnter ==
    /\ stack # <<>> /\ Top.pc = "enter"
    /\ stack' = IF Top.type = None THEN Returning(EmptyObject)
                ELSE IF graph[Top.type].elements = <<>> /\ graph[Top.type].attributes = <<>>
                THEN Returning(map_xsd_to_json_type(graph[Top.type].name))
                ELSE SetTop([Top EXCEPT !.pc = "attrs"])
    /\ UNCHANGED <<graph, root, result, session_vars, mapper_vars>>

\* Lines 41-44: the attribute loop.
CAttrs ==
    /\ stack # <<>> /\ Top.pc = "attrs"
    /\ LET a == AttrLoop(graph[Top.type].attributes, 1, <<>>) IN
       stack' = IF a.raised THEN Returning(StringSchema)
                ELSE SetTop([Top EXCEPT !.pc = "elems", !.properties = a.properties])
    /\ UNCHANGED <<graph, root, result, session_vars, mapper_vars>>

\* Lines 47-48: the next element's recursive call, which starts a new frame
\* unless element.type raises or the interpreter has no frame left.
CCall ==
    /\ stack # <<>> /\ Top.pc = "elems" /\ Top.i <= Len(graph[Top.type].elements)
    /\ LET element == graph[Top.type].elements[Top.i] IN
       stack' = IF ~element.has_type \/ Len(stack) >= MaxDepth
                THEN Returning(StringSchema)
                ELSE Append(SetTop([Top EXCEPT !.pc = "await"]), Frame(element.type))
    /\ UNCHANGED <<graph, root, result, session_vars, mapper_vars>>

\* Lines 50-56: the property and the required entry of the element whose
\* call returned.
CAfterChild ==
    /\ stack # <<>> /\ Top.pc = "post"
    /\ LET a == AfterChild(graph[Top.type].elements[Top.i], Top.value,
                           Top.properties, Top.required) IN
       stack' = IF a.raised THEN Returning(StringSchema)
                ELSE SetTop([Top EXCEPT !.pc = "elems", !.i = @ + 1, !.value = PyNone,
                                        !.properties = a.properties,
                                        !.required = a.required])
    /\ UNCHANGED <<graph, root, result, session_vars, mapper_vars>>

\* Lines 58-68: after the loops.
CFinish ==
    /\ stack # <<>> /\ Top.pc = "elems" /\ Top.i > Len(graph[Top.type].elements)
    /\ stack' = Returning(FinishSchema(graph[Top.type], Top.properties, Top.required))
    /\ UNCHANGED <<graph, root, result, session_vars, mapper_vars>>

\* The top frame is popped and its value handed to the caller's
\* child_schema, or out of the outermost call.
CReturn ==
    /\ stack # <<>> /\ Top.pc = "ret"
    /\ IF Len(stack) = 1
       THEN /\ result' = Top.value
            /\ stack' = <<>>
       ELSE /\ result' = result
            /\ stack' = [SubSeq(stack, 1, Len(stack) - 1) EXCEPT
                            ![Len(stack) - 1].pc = "post",
                            ![Len(stack) - 1].value = Top.value]
    /\ UNCHANGED <<graph, root, session_vars, mapper_vars>>

SessionInit ==
    /\ step = "upload"
    /\ op_data = <<>>
    /\ final_spec = PyNone
    /\ uploaded_files = <<>>
    /\ main_wsdl = 0
    /\ widgets = <<>>
    /\ updated_data = <<>>
    /\ messages = {}
    /\ rerun = FALSE
    /\ live_dirs = 0

\* The compiler called on the first type of each generated graph.
InitCompile ==
    /\ SessionInit
    /\ \E elem_ix \in ElemSeqs, attr_ix \in 1..Len(AttrChoices),
          second_ix \in 1..Len(SecondChoices) :
          graph = MakeGraph(elem_ix, attr_ix, second_ix)
    /\ root = "T1"
    /\ stack = <<Frame(root)>>
    /\ result = NoResult
    /\ xsd_type_name = <<>>
    /\ mapped = NoResult

\* ------------------------------------------------ the service descriptions

\* An operation of a binding: its name, the types of its input and output
\* bodies (None without a body), and whether the bodies have the .type the
\* extraction reads.
Op(name, input, output, has_type) ==
    [name |-> name, input |-> input, output |-> output, has_type |-> has_type]
Service(name, ports) == [name |-> name, ports |-> ports]
\* An uploaded file: its name, and what zeep's Client finds in it: whether
\* it loads (it parses and its imports resolve), and its services.
File(stem, suffix, loads, services) ==
    [name |-> stem \o suffix, suffix |-> suffix, loads |-> loads,
     services |-> services]

\* The type graph behind the uploaded descriptions: a node type with an
\* attribute and an element of the same name and a repeatable item, and an
\* attribute-bearing leaf.
SessionGraph == MakeGraph(<<3, 2>>, 2, 1)

Orders == Service("Orders", <<<<Op("A", "T1", "T2", TRUE), Op("B", "Int", None, TRUE)>>>>)
\* One operation behind two ports (two protocol bindings).
Billing == Service("Billing", <<<<Op("A", "T2", "Int", TRUE)>>, <<Op("A", "T2", "Int", TRUE)>>>>)
Admin == Service("Admin", <<<<Op("C", None, "T2", TRUE), Op("D", "T1", "T1", FALSE)>>>>)

TypesXsd == File("types", ".xsd", TRUE, <<>>)
BillingWsdl == File("billing", ".wsdl", TRUE, <<Billing>>)
AllWsdl == File("all", ".wsdl", TRUE, <<Orders, Billing>>)
AdminWsdl == File("admin", ".wsdl", TRUE, <<Admin>>)
BrokenWsdl == File("broken", ".wsdl", FALSE, <<>>)

\* What the user may drop into the uploader.
UploadChoices ==
    <<<<>>, <<TypesXsd>>, <<BillingWsdl, TypesXsd>>,
      <<BrokenWsdl, AdminWsdl, AllWsdl>>>>

\* The texts the user may type into a text area, besides the text it was
\* rendered with: into a request area an edited schema or an unclosed
\* brace, into a response area a bare number or an unclosed brace.
EditedSchema ==
    JObj(<<Pair("type", JStr("object")),
           Pair("properties", JObj(<<Pair("note", StringSchema)>>))>>)
EditTexts ==
    [req |-> <<Dumps(EditedSchema), <<P("{")>>>>,
     res |-> <<<<Tok("num", "5")>>, <<P("{")>>>>]

\* ------------------------------------------------------- session pipeline

\* One entry of op_data / extracted_ops / updated_data, with its key.
Record(name, request, response, include, tag) ==
    [name |-> name, request |-> request, response |-> response,
     include |-> include, tag |-> tag]
Names(data) == {data[i].name : i \in 1..Len(data)}
RecIndex(data, name) ==
    IF \E i \in 1..Len(data) : data[i].name = name
    THEN CHOOSE i \in 1..Len(data) : data[i].name = name
    ELSE 0
Lookup(data, name) == data[RecIndex(data, name)]
\* data[rec.name] = rec
RecSet(data, rec) ==
    IF RecIndex(data, rec.name) # 0
    THEN [data EXCEPT ![RecIndex(data, rec.name)] = rec]
    ELSE Append(data, rec)

\* The state a script run leaves behind.
Out(st, data, spec, sel, w, updated, msgs, rr, dirs) ==
    [step |-> st, op_data |-> data, final_spec |-> spec, main_wsdl |-> sel,
     widgets |-> w, updated_data |-> updated, messages |-> msgs, rerun |-> rr,
     live_dirs |-> dirs]

\* restart_process without its last line: the document is kept.
restart_process_DocumentKept ==
    [step |-> "upload", op_data |-> <<>>, final_spec |-> final_spec]

restart_process == [step |-> "upload", op_data |-> <<>>, final_spec |-> PyNone]

\* The operations of a description in the order the three nested loops
\* visit them, each with the name of its service.
RECURSIVE Flatten(_)
Flatten(seqs) == IF seqs = <<>> THEN <<>> ELSE Head(seqs) \o Flatten(Tail(seqs))
Discovered(services) ==
    Flatten([i \in 1..Len(services) |->
        LET ops == Flatten(services[i].ports) IN
        [j \in 1..Len(ops) |-> [op |-> ops[j], service |-> services[i].name]]])

\* The loops filling extracted_ops, from discovered operation i on; raised
\* when op.input.body.type or op.output.body.type raises.
RECURSIVE ExtractOps(_, _, _)
ExtractOps(found, i, extracted_ops) ==
    IF i > Len(found) THEN [raised |-> FALSE, ops |-> extracted_ops]
    ELSE IF ~found[i].op.has_type THEN [raised |-> TRUE, ops |-> extracted_ops]
    ELSE ExtractOps(found, i + 1,
            RecSet(extracted_ops,
                   Record(found[i].op.name,
                          zeep_type_to_json_schema(SessionGraph, found[i].op.input, 1),
                          zeep_type_to_json_schema(SessionGraph, found[i].op.output, 1),
                          TRUE, found[i].service)))

\* The try block of the parse button; Client(main_path) raises on a file
\* it cannot load.
ParseOperations(main) ==
    IF ~main.loads THEN [raised |-> TRUE, ops |-> <<>>]
    ELSE ExtractOps(Discovered(main.services), 1, <<>>)

WsdlFiles(files) == SelectSeq(files, LAMBDA f : f.suffix = ".wsdl")

\* UploadStage with the loops writing to st.session_state.op_data as they
\* go, instead of to the local extracted_ops: a raise leaves the records
\* extracted so far.
UploadStage_WritesThrough(files, sel, pressed) ==
    LET made == live_dirs + 1
        wsdl_files == WsdlFiles(files)
        chosen == IF sel = 0 THEN 1 ELSE sel
    IN  IF wsdl_files = <<>>
        THEN Out(step, op_data, final_spec, 0, <<>>, <<>>,
                 {<<"no_wsdl_warning", "">>}, FALSE, made)
        ELSE IF ~pressed
        THEN Out(step, op_data, final_spec, chosen, <<>>, <<>>, {}, FALSE, made)
        ELSE LET parsed == ParseOperations(wsdl_files[chosen]) IN
             IF parsed.raised
             THEN Out(step, parsed.ops, final_spec, chosen, <<>>, <<>>,
                      {<<"processing_error", "">>}, FALSE, made - 1)
             ELSE Out("edit", parsed.ops, final_spec, chosen, <<>>, <<>>, {}, TRUE, made - 1)

\* STEP 1, lines 105-147, with `files` in the uploader and the selectbox
\* at `sel` (0: no state yet, it shows its first option).
UploadStage(files, sel, pressed) ==
    LET made == live_dirs + 1
        wsdl_files == WsdlFiles(files)
        chosen == IF sel = 0 THEN 1 ELSE sel
    IN  IF wsdl_files = <<>>
        THEN Out(step, op_data, final_spec, 0, <<>>, <<>>,
                 {<<"no_wsdl_warning", "">>}, FALSE, made)
        ELSE IF ~pressed
        THEN Out(step, op_data, final_spec, chosen, <<>>, <<>>, {}, FALSE, made)
        ELSE LET parsed == ParseOperations(wsdl_files[chosen]) IN
             IF parsed.raised
             THEN Out(step, op_data, final_spec, chosen, <<>>, <<>>,
                      {<<"processing_error", "">>}, FALSE, made - 1)
             ELSE Out("edit", parsed.ops, final_spec, chosen, <<>>, <<>>, {}, TRUE, made - 1)

\* The editor's widgets of one operation as first rendered.
DefaultWidgets(info) ==
    [check |-> info.include, req |-> Dumps(info.request), res |-> Dumps(info.response)]
\* The widgets after a run of the edit stage: a widget with state keeps it,
\* a new one starts from its value= argument.
RenderWidgets(current_data, w) ==
    [n \in Names(current_data) |->
        IF n \in DOMAIN w THEN w[n] ELSE DefaultWidgets(Lookup(current_data, n))]

\* EditedRecord with an except branch that keeps the checkbox: the stored
\* schemas with the include flag of this pass.
EditedRecord_KeepsInclude(info, wi) ==
    LET request == Loads(wi.req)
        response == Loads(wi.res)
    IN  IF request.ok /\ response.ok
        THEN Record(info.name, request.val, response.val, wi.check, info.tag)
        ELSE [info EXCEPT !.include = wi.check]

\* The try / except of one operation, lines 172-181.
EditedRecord(info, wi) ==
    LET request == Loads(wi.req)
        response == Loads(wi.res)
    IN  IF request.ok /\ response.ok
        THEN Record(info.name, request.val, response.val, wi.check, info.tag)
        ELSE info
\* The text areas of one operation hold a text json.loads rejects.
ParseFails(wi) == ~Loads(wi.req).ok \/ ~Loads(wi.res).ok

\* EditLoop with the try around the whole loop instead of around one
\* operation: one text that fails to parse makes every operation fall back.
EditLoop_OneTryForAll(current_data, w) ==
    IF \E i \in 1..Len(current_data) : ParseFails(w[current_data[i].name])
    THEN current_data
    ELSE [i \in 1..Len(current_data) |->
            EditedRecord(current_data[i], w[current_data[i].name])]

\* The loop over current_data, lines 154-181.
EditLoop(current_data, w) ==
    [i \in 1..Len(current_data) |-> EditedRecord(current_data[i], w[current_data[i].name])]
EditErrors(current_data, w) ==
    {<<"json_error", current_data[i].name>> : i \in
        {j \in 1..Len(current_data) :
            ~(Loads(w[current_data[j].name].req).ok /\ Loads(w[current_data[j].name].res).ok)}}

PathEntry(name, data) ==
    JObj(<<Pair("post", JObj(<<
        Pair("tags", JArr(<<JStr(data.tag)>>)),
        Pair("summary", JStr(name)),
        Pair("requestBody", JObj(<<Pair("content", JObj(<<Pair("application/json",
            JObj(<<Pair("schema", data.request)>>))>>))>>)),
        Pair("responses", JObj(<<Pair("200", JObj(<<
            Pair("description", JStr("Success")),
            Pair("content", JObj(<<Pair("application/json",
                JObj(<<Pair("schema", data.response)>>))>>))>>))>>))>>))>>)

\* Paths without the include test: a path for every record.
RECURSIVE Paths_IncludeIgnored(_, _, _)
Paths_IncludeIgnored(updated, i, paths) ==
    IF i > Len(updated) THEN paths
    ELSE Paths_IncludeIgnored(updated, i + 1,
               DictSet(paths, "/" \o updated[i].name, PathEntry(updated[i].name, updated[i])))

\* for name, data in updated_data.items(): if data['include']: ...
RECURSIVE Paths(_, _, _)
Paths(updated, i, paths) ==
    IF i > Len(updated) THEN paths
    ELSE Paths(updated, i + 1,
               IF updated[i].include
               THEN DictSet(paths, "/" \o updated[i].name, PathEntry(updated[i].name, updated[i]))
               ELSE paths)

\* The OpenAPI document of the Generate button, lines 185-211.
Assemble(updated) ==
    JObj(<<Pair("openapi", JStr("3.0.0")),
           Pair("info", JObj(<<Pair("title", JStr("Restructured REST API")),
                               Pair("version", JStr("1.0.0")),
                               Pair("description",
                                    JStr("Auto-generated REST facade from SOAP WSDL."))>>)),
           Pair("paths", JObj(Paths(updated, 1, <<>>)))>>)

\* EditStage with a Generate button that adds the paths of this pass to
\* the paths of the stored document instead of starting from none.
EditStage_MergesDocument(w, pressed) ==
    LET current_data == op_data
        rendered == RenderWidgets(current_data, w)
        updated == EditLoop(current_data, rendered)
        errors == EditErrors(current_data, rendered)
        old == IF final_spec = PyNone THEN <<>> ELSE Get(final_spec, "paths").items
        merged == JObj(DictSet(Assemble(updated).items, "paths",
                               JObj(Paths(updated, 1, old))))
    IN  IF pressed
        THEN Out("visualize", op_data, merged, 0, rendered, updated, errors,
                 TRUE, live_dirs)
        ELSE Out(step, op_data, final_spec, 0, rendered, updated, errors, FALSE, live_dirs)

\* STEP 2, lines 150-215, with the editor's widgets holding w.
EditStage(w, pressed) ==
    LET current_data == op_data
        rendered == RenderWidgets(current_data, w)
        updated == EditLoop(current_data, rendered)
        errors == EditErrors(current_data, rendered)
    IN  IF pressed
        THEN Out("visualize", op_data, Assemble(updated), 0, rendered, updated, errors,
                 TRUE, live_dirs)
        ELSE Out(step, op_data, final_spec, 0, rendered, updated, errors, FALSE, live_dirs)

\* VisualizeStage with a Back to Editor button that also drops the
\* document.
VisualizeStage_DropsDocument(pressed) ==
    IF pressed
    THEN Out("edit", op_data, PyNone, 0, <<>>, <<>>, {}, TRUE, live_dirs)
    ELSE Out(step, op_data, final_spec, 0, <<>>, <<>>, {}, FALSE, live_dirs)

\* STEP 3, lines 218-255.
VisualizeStage(pressed) ==
    IF pressed
    THEN Out("edit", op_data, final_spec, 0, <<>>, <<>>, {}, TRUE, live_dirs)
    ELSE Out(step, op_data, final_spec, 0, <<>>, <<>>, {}, FALSE, live_dirs)

\* The initial info screen, lines 258-268.
Welcome == Out(step, op_data, final_spec, 0, <<>>, <<>>, {}, FALSE, live_dirs)

\* StartNew with a restart that resets the stage alone.
StartNew_StageOnly ==
    Out("upload", op_data, final_spec, main_wsdl, widgets, <<>>, {}, TRUE, live_dirs)

\* The Start New Project button, lines 92-94: the run ends in st.rerun()
\* before it renders anything else.
StartNew ==
    LET r == restart_process IN
    Out(r.step, r.op_data, r.final_spec, main_wsdl, widgets, <<>>, {}, TRUE, live_dirs)

\* One run of the script, top to bottom, with the widgets holding files,
\* sel and w and `button` the button clicked ("none" for a run no button
\* started).
Script(files, sel, w, button) ==
    IF button = "restart" THEN StartNew
    ELSE IF files # <<>> /\ step = "upload" THEN UploadStage(files, sel, button = "parse")
    ELSE IF step = "edit" THEN EditStage(w, button = "generate")
    ELSE IF step = "visualize" THEN VisualizeStage(button = "back")
    ELSE Welcome

\* The session after the run: what the run left behind, the uploader
\* holding files_after.
Run(out, files_after) ==
    /\ step' = out.step
    /\ op_data' = out.op_data
    /\ final_spec' = out.final_spec
    /\ main_wsdl' = out.main_wsdl
    /\ widgets' = out.widgets
    /\ updated_data' = out.updated_data
    /\ messages' = out.messages
    /\ rerun' = out.rerun
    /\ live_dirs' = out.live_dirs
    /\ uploaded_files' = files_after
    /\ UNCHANGED <<compiler_vars, mapper_vars>>

\* A run of the upload stage that does not press the parse button leaves
\* its directory behind; the model stops adding them at MaxDirs.
Leaks(files) == step = "upload" /\ files # <<>>

\* The run st.rerun() asked for.
Rerun ==
    /\ rerun
    /\ Run(Script(uploaded_files, main_wsdl, widgets, "none"), uploaded_files)

\* Lines 133-142 for a description of one operation whose input body has
\* the type just compiled and which has no output body: the schema returned
\* becomes the request of its record, and the run asks for the rerun that
\* shows the editor.
CStore ==
    /\ stack = <<>> /\ result # NoResult
    /\ step = "upload" /\ ~rerun
    /\ Run(Out("edit", <<Record("Op", result, EmptyObject, TRUE, "Svc")>>, final_spec,
               main_wsdl, <<>>, <<>>, {}, TRUE, live_dirs), uploaded_files)

\* The compiler run frame by frame, then the editor shown on what it
\* returned.
NextCompile ==
    \/ CEnter \/ CAttrs \/ CCall \/ CAfterChild \/ CFinish \/ CReturn
    \/ CStore \/ Rerun
SpecCompile == InitCompile /\ [][NextCompile]_vars

\* The frame-by-frame run returns what the function computes.
CompileAgrees ==
    result # NoResult => result = zeep_type_to_json_schema(graph, root, 1)

\* The user clicks Start New Project. Streamlit versions differ in whether
\* the uploader, which this run never renders, keeps its files.
StartNewProject ==
    /\ ~rerun
    /\ \E files_after \in {uploaded_files, <<>>} :
        /\ files_after = <<>> \/ live_dirs < MaxDirs
        /\ Run(Script(uploaded_files, main_wsdl, widgets, "restart"), files_after)

\* The user changes the files in the uploader, while the stage that reads
\* them is shown.
SetFiles ==
    /\ ~rerun /\ step = "upload"
    /\ \E i \in 1..Len(UploadChoices) :
        /\ UploadChoices[i] # uploaded_files
        /\ Leaks(UploadChoices[i]) => live_dirs < MaxDirs
        /\ Run(Script(UploadChoices[i], 0, widgets, "none"), UploadChoices[i])

\* The user picks another main WSDL.
SelectMain ==
    /\ ~rerun /\ step = "upload" /\ live_dirs < MaxDirs
    /\ \E i \in 1..Len(WsdlFiles(uploaded_files)) :
        /\ i # main_wsdl
        /\ Run(Script(uploaded_files, i, widgets, "none"), uploaded_files)

\* The user clicks Parse Operations & Design Schema.
Parse ==
    /\ ~rerun /\ step = "upload" /\ WsdlFiles(uploaded_files) # <<>>
    /\ Run(Script(uploaded_files, main_wsdl, widgets, "parse"), uploaded_files)

\* The user replaces the text of a request or response text area.
EditText ==
    /\ ~rerun /\ step = "edit"
    /\ \E n \in DOMAIN widgets, field \in {"req", "res"}, t \in 0..Len(EditTexts.req) :
        LET text == IF t = 0 THEN DefaultWidgets(Lookup(op_data, n))[field]
                    ELSE EditTexts[field][t] IN
        /\ text # widgets[n][field]
        /\ Run(Script(uploaded_files, main_wsdl,
                      [widgets EXCEPT ![n][field] = text], "none"),
               uploaded_files)

\* The user ticks or unticks Include.
ToggleInclude ==
    /\ ~rerun /\ step = "edit"
    /\ \E n \in DOMAIN widgets :
        Run(Script(uploaded_files, main_wsdl,
                   [widgets EXCEPT ![n].check = ~@], "none"),
            uploaded_files)

\* The user clicks Generate Swagger UI.
Generate ==
    /\ ~rerun /\ step = "edit"
    /\ Run(Script(uploaded_files, main_wsdl, widgets, "generate"), uploaded_files)

\* The user clicks Back to Editor.
BackToEditor ==
    /\ ~rerun /\ step = "visualize"
    /\ Run(Script(uploaded_files, main_wsdl, widgets, "back"), uploaded_files)

Init ==
    /\ SessionInit
    /\ graph = SessionGraph
    /\ root = None
    /\ stack = <<>>
    /\ result = NoResult
    /\ xsd_type_name = <<>>
    /\ mapped = NoResult

Next ==
    \/ Rerun \/ StartNewProject \/ SetFiles \/ SelectMain \/ Parse
    \/ EditText \/ ToggleInclude \/ Generate \/ BackToEditor

Spec == Init /\ [][Next]_vars

\* ------------------------------------------ map_xsd_to_json_type on its own

\* Words a type name is made of.
MaxWords == 2

\* The pieces the type names explored are spelled from: the namespace
\* prefix, the keywords of the mapper as written in XSD and in other
\* casings, and pieces that hold no keyword on their own.
NameWords ==
    <<<<"x", "s", ":">>, KwInt, KwLong, KwShort, KwInteger, KwDecimal, KwFloat,
      KwDouble, KwNumber, KwBoolean, <<"d", "a", "t", "e", "T", "i", "m", "e">>,
      KwDate, <<"s", "t", "r", "i", "n", "g">>,
      <<"u", "n", "k", "n", "o", "w", "n">>, <<"P", "o">>, <<"I", "N", "T">>,
      <<"D", "e", "c", "i", "m", "a", "l">>,
      <<"B", "O", "O", "L", "E", "A", "N">>, <<"D", "a", "t", "e">>>>
WordSeqs == UNION {[1..n -> 1..Len(NameWords)] : n \in 1..MaxWords}
NameOf(word_ix) == Flatten([i \in 1..Len(word_ix) |-> NameWords[word_ix[i]]])

InitMap ==
    /\ SessionInit
    /\ graph = SessionGraph
    /\ root = None
    /\ stack = <<>>
    /\ result = NoResult
    /\ \E word_ix \in WordSeqs : xsd_type_name = NameOf(word_ix)
    /\ mapped = NoResult

\* The call map_xsd_to_json_type(xsd_type_name) returns.
MapperCall ==
    /\ mapped = NoResult
    /\ mapped' = map_xsd_to_json_type(xsd_type_name)
    /\ UNCHANGED <<xsd_type_name, session_vars, compiler_vars>>

SpecMap == InitMap /\ [][MapperCall]_vars

\* ----------------------------------------------------------------- claims

\* The types a node's well-formed child elements refer to.
Kids(g, t) ==
    {g[t].elements[i].type :
        i \in {j \in 1..Len(g[t].elements) : g[t].elements[j].has_type}} \ {None}
RECURSIVE Closure(_, _, _)
Closure(g, types, n) ==
    IF n = 0 THEN types
    ELSE Closure(g, types \cup UNION {Kids(g, t) : t \in types}, n - 1)
\* t is reachable from itself, directly or through other types.
SelfReferential(g, t) == t \in Closure(g, Kids(g, t), Cardinality(DOMAIN g))

MalformedAttr(a) == ~a.has_type
MalformedElem(e) == ~e.has_type \/ (Truthy(e.min_occurs) /\ IntRaises(e.min_occurs))
Malformed(node) ==
    \/ \E i \in 1..Len(node.attributes) : MalformedAttr(node.attributes[i])
    \/ \E i \in 1..Len(node.elements) : MalformedElem(node.elements[i])
WellFormedGraph(g) == \A t \in DOMAIN g : ~Malformed(g[t])

\* A type is on the call stack twice: the compiler started compiling a type
\* that was already on its active recursion path.
Reentered ==
    \E i, j \in 1..Len(stack) :
        i < j /\ stack[i].type = stack[j].type /\ stack[i].type # None
HasRefMarker(schema) ==
    \E i \in 1..Len(Dumps(schema)) : Dumps(schema)[i] = Tok("str", "$ref")

\* C1 (cycle termination): the compiler never starts compiling a type that
\* is already on its active recursion path, and the schema it returns for a
\* type reachable from itself holds a reference marker at the recursive
\* point.
C1_CycleGuard ==
    /\ ~Reentered
    /\ (result # NoResult /\ SelfReferential(graph, root) /\ WellFormedGraph(graph))
            => HasRefMarker(result)

\* The property the element loop gives a well-formed element.
ExpectedProperty(g, element) ==
    LET child_schema == zeep_type_to_json_schema(g, element.type, 2) IN
    IF Repeatable(element.max_occurs) THEN ArrayOf(child_schema) ELSE child_schema
\* The last attribute or element of a name decides the property.
LastOfName(seq, i) == \A j \in (i + 1)..Len(seq) : seq[j].name # seq[i].name

\* C2 (degradation containment): when an attribute or a child element of a
\* complex node is malformed, the node still compiles to an object schema,
\* and every well-formed sibling attribute and element keeps its normally
\* compiled property.
C2_DegradationContained ==
    LET node == graph[root] IN
    (result # NoResult /\ Malformed(node)) =>
        /\ HasKey(result, "type") /\ Get(result, "type") = JStr("object")
        /\ HasKey(result, "properties")
        /\ \A i \in 1..Len(node.attributes) :
              (~MalformedAttr(node.attributes[i])
                  /\ \A j \in 1..Len(node.elements) :
                        node.elements[j].name # node.attributes[i].name)
              => /\ HasKey(Get(result, "properties"), node.attributes[i].name)
                 /\ Get(Get(result, "properties"), node.attributes[i].name)
                        = map_xsd_to_json_type(node.attributes[i].type)
        /\ \A i \in 1..Len(node.elements) :
              (~MalformedElem(node.elements[i]) /\ LastOfName(node.elements, i))
              => /\ HasKey(Get(result, "properties"), node.elements[i].name)
                 /\ Get(Get(result, "properties"), node.elements[i].name)
                        = ExpectedProperty(graph, node.elements[i])

\* C3 (edit isolation): after every run of the edit stage, an operation
\* whose request or response text fails to parse is used with its stored
\* record, and the record of an operation whose own widgets the user did
\* not touch is the one the previous run used, whatever happened to the
\* texts of the other operations.
C3_EditIsolation ==
    [][(step = "edit" /\ updated_data' # <<>>) =>
        \A n \in Names(op_data) :
            /\ ParseFails(widgets'[n]) =>
                    Lookup(updated_data', n) = Lookup(op_data, n)
            /\ (updated_data # <<>> /\ widgets'[n] = widgets[n]) =>
                    Lookup(updated_data', n) = Lookup(updated_data, n)]_vars
\* An operation's text fails to parse while another operation is used with
\* an edited record.
C3_Witness ==
    \E a, b \in Names(updated_data) :
        /\ a # b
        /\ ParseFails(widgets[a])
        /\ <<"json_error", a>> \in messages
        /\ Lookup(updated_data, a) = Lookup(op_data, a)
        /\ Lookup(updated_data, b) # Lookup(op_data, b)

\* C4 (edit persistence): once the texts of an operation parse, the stored
\* record of the operation (op_data) holds the parsed request and response.
C4_EditPersisted ==
    updated_data # <<>> =>
        \A n \in Names(op_data) :
            ~ParseFails(widgets[n]) =>
                /\ Lookup(op_data, n).request = Loads(widgets[n].req).val
                /\ Lookup(op_data, n).response = Loads(widgets[n].res).val

\* A SchemaNode: a primitive, an object with properties that are
\* SchemaNodes, or an array with items that are a SchemaNode.
RECURSIVE IsSchemaNode(_)
IsSchemaNode(v) ==
    /\ HasKey(v, "type")
    /\ Get(v, "type").k = "str"
    /\ CASE Get(v, "type").s \in {"string", "integer", "number", "boolean"} -> TRUE
         [] Get(v, "type").s = "object" ->
                /\ HasKey(v, "properties")
                /\ Get(v, "properties").k = "obj"
                /\ \A i \in 1..Len(Get(v, "properties").items) :
                        IsSchemaNode(Get(v, "properties").items[i].val)
         [] Get(v, "type").s = "array" ->
                HasKey(v, "items") /\ IsSchemaNode(Get(v, "items"))
         [] OTHER -> FALSE

\* C5 (valid-schema invariant): every stored record and every record a run
\* of the edit stage uses, and so hands to the assembler, holds a valid
\* SchemaNode as request and as response.
C5_ValidSchemas ==
    /\ \A i \in 1..Len(op_data) :
            IsSchemaNode(op_data[i].request) /\ IsSchemaNode(op_data[i].response)
    /\ \A i \in 1..Len(updated_data) :
            IsSchemaNode(updated_data[i].request) /\ IsSchemaNode(updated_data[i].response)

\* The state the Generate button's run leaves: the document is built from
\* the updated_data of that run.
Finalized == step = "visualize" /\ rerun
Included(data) == {i \in 1..Len(data) : data[i].include}
SchemaOf(body) == Get(Get(Get(body, "content"), "application/json"), "schema")

\* C6 (assembler inclusion): the paths of the document built at finalize
\* are exactly "/" + name for the records with include = true, and each
\* entry carries the record's tag, its request schema as the
\* application/json request body and its response schema as the single 200
\* response.
C6_AssemblerInclusion ==
    Finalized =>
        LET paths == Get(final_spec, "paths") IN
        /\ Len(paths.items) = Cardinality(Included(updated_data))
        /\ {paths.items[i].key : i \in 1..Len(paths.items)}
                = {"/" \o updated_data[i].name : i \in Included(updated_data)}
        /\ \A i \in Included(updated_data) :
            LET post == Get(Get(paths, "/" \o updated_data[i].name), "post") IN
            /\ Get(post, "tags") = JArr(<<JStr(updated_data[i].tag)>>)
            /\ SchemaOf(Get(post, "requestBody")) = updated_data[i].request
            /\ Keys(Get(post, "responses")) = <<"200">>
            /\ SchemaOf(Get(Get(post, "responses"), "200")) = updated_data[i].response
\* A document built from one included and one excluded record.
C6_Witness ==
    /\ Finalized
    /\ \E i, j \in 1..Len(updated_data) :
            updated_data[i].include /\ ~updated_data[j].include
    /\ Len(Get(final_spec, "paths").items) = 1

Cleared == step = "upload" /\ op_data = <<>> /\ final_spec = PyNone

\* C7 (restart): from every stage and whatever the registry and the
\* document hold, the run of the Start New Project button, and the rerun it
\* asks for, leave stage = upload, no OperationRecords and no Document.
C7_Restart ==
    [][(StartNewProject \/ (rerun /\ step = "upload")) => Cleared']_vars
\* The run of the Start New Project button just ended; it was clicked in
\* the edit stage, whose widgets the run left as they were.
C7_Witness == rerun /\ step = "upload" /\ widgets # <<>> /\ Cleared

\* C8 (workspace cleanup): no temporary directory outlives the script run
\* that made it.
C8_WorkspaceReleased == live_dirs = 0

\* The state the parse button's run leaves when it succeeds.
Ingested == step = "edit" /\ rerun /\ final_spec = PyNone
MainWsdl == WsdlFiles(uploaded_files)[main_wsdl]

\* C9 (registry population): after a successful ingest every operation
\* discovered has its record, with include = true and the name of its
\* service as tag; names are unique; and there is one record per operation
\* (an operation being a name within a service, whatever the number of
\* ports exposing it).
C9_RegistryPopulated ==
    Ingested =>
        LET found == Discovered(MainWsdl.services) IN
        /\ \A i \in 1..Len(found) :
            \E j \in 1..Len(op_data) :
                /\ op_data[j].name = found[i].op.name
                /\ op_data[j].include
                /\ op_data[j].tag = found[i].service
        /\ \A i, j \in 1..Len(op_data) : op_data[i].name = op_data[j].name => i = j
        /\ Len(op_data) =
                Cardinality({<<found[i].service, found[i].op.name>> : i \in 1..Len(found)})

ProcessingError == <<"processing_error", "">>

\* C10 (ingest failure atomicity): a run that shows the processing error
\* leaves the stage at upload, the stored records and document as they
\* were, asks for no rerun, and leaves no directory more than it found.
C10_IngestFailureAtomic ==
    [][(ProcessingError \in messages') =>
        (/\ step = "upload" /\ step' = "upload"
         /\ op_data' = op_data
         /\ final_spec' = final_spec
         /\ ~rerun'
         /\ live_dirs' = live_dirs)]_vars
\* The extraction raised on the second operation of the description, after
\* the first was compiled.
C10_Witness ==
    /\ ProcessingError \in messages
    /\ main_wsdl # 0 /\ MainWsdl = AdminWsdl
    /\ ExtractOps(Discovered(MainWsdl.services), 1, <<>>).ops # <<>>

\* The letters, for comparing a name with a keyword whatever its casing.
Capitals ==
    <<"A", "B", "C", "D", "E", "F", "G", "H", "I", "J", "K", "L", "M",
      "N", "O", "P", "Q", "R", "S", "T", "U", "V", "W", "X", "Y", "Z">>
Smalls ==
    <<"a", "b", "c", "d", "e", "f", "g", "h", "i", "j", "k", "l", "m",
      "n", "o", "p", "q", "r", "s", "t", "u", "v", "w", "x", "y", "z">>
SameLetter(c, k) == c = k \/ \E i \in 1..26 : c = Capitals[i] /\ k = Smalls[i]
\* The name holds the keyword (written in small letters) in some casing.
Mentions(name, keyword) ==
    \E i \in 1..(Len(name) - Len(keyword) + 1) :
        \A j \in 1..Len(keyword) : SameLetter(name[i + j - 1], keyword[j])
MentionsAny(name, family) == \E w \in 1..Len(family) : Mentions(name, family[w])
IntegerFamily ==
    <<<<"i", "n", "t">>, <<"l", "o", "n", "g">>, <<"s", "h", "o", "r", "t">>,
      <<"i", "n", "t", "e", "g", "e", "r">>>>
NumberFamily ==
    <<<<"d", "e", "c", "i", "m", "a", "l">>, <<"f", "l", "o", "a", "t">>,
      <<"d", "o", "u", "b", "l", "e">>, <<"n", "u", "m", "b", "e", "r">>>>
BooleanFamily == <<<<"b", "o", "o", "l", "e", "a", "n">>>>
DateFamily == <<<<"d", "a", "t", "e">>, <<"d", "a", "t", "e", "t", "i", "m", "e">>>>
\* The schema is the primitive of JSON type t and nothing else.
IsPlain(schema, t) == Keys(schema) = <<"type">> /\ Get(schema, "type") = JStr(t)
IsDateTime(schema) ==
    /\ Keys(schema) = <<"type", "format">>
    /\ Get(schema, "type") = JStr("string")
    /\ Get(schema, "format") = JStr("date-time")

\* C11 (primitive mapper): the mapper returns for every type name, and what
\* it returns is decided by the first keyword family the name mentions,
\* whatever its casing, in the order integer, number, boolean, date; a name
\* that mentions none is a plain string. So xs:int is an integer,
\* xs:decimal a number, xs:boolean a boolean, xs:dateTime a string with the
\* date-time format and unknown a string.
C11_MapperFirstMatch ==
    [][MapperCall =>
        LET name == xsd_type_name IN
        /\ mapped' # NoResult
        /\ IF MentionsAny(name, IntegerFamily) THEN IsPlain(mapped', "integer")
           ELSE IF MentionsAny(name, NumberFamily) THEN IsPlain(mapped', "number")
           ELSE IF MentionsAny(name, BooleanFamily) THEN IsPlain(mapped', "boolean")
           ELSE IF MentionsAny(name, DateFamily) THEN IsDateTime(mapped')
           ELSE IsPlain(mapped', "string")
        /\ name = NameOf(<<1, 2>>) => IsPlain(mapped', "integer")
        /\ name = NameOf(<<1, 6>>) => IsPlain(mapped', "number")
        /\ name = NameOf(<<1, 10>>) => IsPlain(mapped', "boolean")
        /\ name = NameOf(<<1, 11>>) => IsDateTime(mapped')
        /\ name = NameOf(<<14>>) => IsPlain(mapped', "string")]_vars
\* The mapper returned integer for a name that mentions, in capitals, a
\* keyword of the integer family and after it one of the number family.
C11_Witness ==
    /\ mapped # NoResult
    /\ xsd_type_name = NameOf(<<16, 17>>)
    /\ MentionsAny(xsd_type_name, IntegerFamily)
    /\ MentionsAny(xsd_type_name, NumberFamily)
    /\ IsPlain(mapped, "integer")

\* The names a compiled object schema lists as required.
RequiredOf(schema) ==
    IF HasKey(schema, "required")
    THEN {Get(schema, "required").items[i].s :
            i \in 1..Len(Get(schema, "required").items)}
    ELSE {}
\* No other child element of the node has the name of element i.
OnlyOfName(elements, i) ==
    \A j \in 1..Len(elements) : elements[j].name = elements[i].name => j = i
\* The type of the spec's example: a required string a and an optional
\* integer b that may repeat without bound.
ExampleNode ==
    [name |-> TnsNode, attributes |-> <<>>,
     elements |-> <<[name |-> "a", type |-> "Str", min_occurs |-> OccInt(1),
                     max_occurs |-> OccInt(1), has_type |-> TRUE],
                    [name |-> "b", type |-> "Int", min_occurs |-> OccInt(0),
                     max_occurs |-> Unbounded, has_type |-> TRUE]>>]
ExampleSchema ==
    JObj(<<Pair("type", JStr("object")),
           Pair("properties", JObj(<<
                Pair("a", JObj(<<Pair("type", JStr("string"))>>)),
                Pair("b", JObj(<<Pair("type", JStr("array")),
                                 Pair("items", JObj(<<Pair("type", JStr("integer"))>>))>>))>>)),
           Pair("required", JArr(<<JStr("a")>>))>>)

Untouched(data, w) ==
    \A i \in 1..Len(data) : w[data[i].name] = DefaultWidgets(data[i])

\* C13 (round trip): in every run of the edit stage that finds the widgets
\* as rendered, the text of each stored request and response parses, the
\* parsed value equals the stored schema, and so the records the run uses
\* equal the stored ones and no error is shown.
C13_RoundTrip ==
    [][(step' = "edit" /\ updated_data' # <<>> /\ Untouched(op_data', widgets')) =>
        /\ \A i \in 1..Len(op_data') :
            LET n == op_data'[i].name IN
            /\ Loads(widgets'[n].req) =
                    ParseOk(op_data'[i].request, Len(widgets'[n].req) + 1)
            /\ Loads(widgets'[n].res) =
                    ParseOk(op_data'[i].response, Len(widgets'[n].res) + 1)
        /\ updated_data' = op_data'
        /\ messages' = {}]_vars
\* The editor was shown on the schema of a type with a nested object, an
\* array and a required list, and the run used it as stored.
C13_Witness ==
    /\ step = "edit" /\ ~rerun
    /\ Len(updated_data) = 1 /\ updated_data = op_data
    /\ Untouched(op_data, widgets)
    /\ op_data[1].request = result
    /\ RequiredOf(result) = {"a"}
    /\ HasKey(Get(result, "properties"), "b")
    /\ HasKey(Get(Get(result, "properties"), "b"), "items")
    /\ HasKey(Get(Get(Get(result, "properties"), "b"), "items"), "properties")

\* C14 (no recompilation after ingest): the stored records are written
\* only by the parse run at stage upload and emptied only by restart; Back
\* to Editor changes the stage to edit and leaves the records and the
\* document as they are; and at stage edit or visualize every run leaves
\* the records as they are unless it is the restart, which empties them,
\* whatever the uploader holds.
C14_NoRecompile ==
    [][/\ (op_data' # op_data) =>
            \/ step = "upload" /\ Parse /\ step' = "edit"
            \/ StartNewProject /\ op_data' = <<>> /\ step' = "upload"
       /\ BackToEditor =>
            /\ step' = "edit"
            /\ op_data' = op_data
            /\ final_spec' = final_spec
       /\ (step \in {"edit", "visualize"} /\ ~StartNewProject) =>
            op_data' = op_data]_vars
\* Back in the editor after a finalize, the uploader still holding the
\* description the records were compiled from.
C14_Witness ==
    /\ step = "edit" /\ ~rerun
    /\ final_spec # PyNone
    /\ op_data # <<>>
    /\ WsdlFiles(uploaded_files) # <<>>
    /\ updated_data # <<>>

\* C15 (name collision): whenever a complex node compiles to its object
\* schema, no property name appears twice, and a name borne both by an
\* attribute and by a child element has as its property the schema of the
\* (last) element of that name, array-wrapped when the element may repeat:
\* the element's schema whole, with nothing of the attribute's in it.
C15_ElementWins ==
    [][CFinish =>
        LET node == graph[Top.type]
            props == Get(stack'[Len(stack)].value, "properties")
        IN
        /\ \A i, j \in 1..Len(props.items) :
                props.items[i].key = props.items[j].key => i = j
        /\ \A a \in 1..Len(node.attributes), i \in 1..Len(node.elements) :
            LET e == node.elements[i]
                compiled == zeep_type_to_json_schema(graph, e.type, Len(stack) + 1)
            IN  (node.attributes[a].name = e.name /\ LastOfName(node.elements, i)) =>
                /\ HasKey(props, e.name)
                /\ Get(props, e.name) =
                        (IF e.max_occurs = OccStr("unbounded")
                                \/ (e.max_occurs.int /\ e.max_occurs.n > 1)
                         THEN JObj(<<Pair("type", JStr("array")), Pair("items", compiled)>>)
                         ELSE compiled)]_vars
\* A type with a boolean attribute b and a repeatable string element b
\* compiled to an object whose only property b is the array of string.
C15_Witness ==
    /\ result # NoResult
    /\ Len(graph[root].attributes) = 1 /\ graph[root].attributes[1].name = "b"
    /\ Len(graph[root].elements) = 1 /\ graph[root].elements[1].name = "b"
    /\ graph[root].elements[1].type = "Str"
    /\ Keys(Get(result, "properties")) = <<"b">>
    /\ Get(Get(result, "properties"), "b") =
            JObj(<<Pair("type", JStr("array")),
                   Pair("items", JObj(<<Pair("type", JStr("string"))>>))>>)

\* C16 (document replacement): the document a finalize stores is built
\* from the records of that pass alone, whatever document was stored
\* before: it has the fixed title and version, each of its paths is "/" +
\* name of a record included in that pass and carries that record's
\* schemas, and a record excluded in that pass has no path, even when the
\* document stored before had one.
C16_DocumentReplaced ==
    [][Generate =>
        LET paths == Get(final_spec', "paths") IN
        /\ Keys(final_spec') = <<"openapi", "info", "paths">>
        /\ Get(Get(final_spec', "info"), "title") = JStr("Restructured REST API")
        /\ Get(Get(final_spec', "info"), "version") = JStr("1.0.0")
        /\ \A k \in 1..Len(paths.items) :
            \E i \in 1..Len(updated_data') :
                LET post == Get(paths.items[k].val, "post") IN
                /\ updated_data'[i].include
                /\ paths.items[k].key = "/" \o updated_data'[i].name
                /\ Keys(paths.items[k].val) = <<"post">>
                /\ SchemaOf(Get(post, "requestBody")) = updated_data'[i].request
                /\ SchemaOf(Get(Get(post, "responses"), "200")) = updated_data'[i].response
        /\ \A i \in 1..Len(updated_data') :
                updated_data'[i].include <=> HasKey(paths, "/" \o updated_data'[i].name)]_vars
\* Back in the editor with a stored document that has the path /A, the
\* user has excluded A: the pass a finalize would now build from.
C16_Witness ==
    /\ step = "edit" /\ ~rerun
    /\ final_spec # PyNone
    /\ HasKey(Get(final_spec, "paths"), "/A")
    /\ \E i \in 1..Len(updated_data) :
            updated_data[i].name = "A" /\ ~updated_data[i].include
    /\ \E i \in 1..Len(updated_data) : updated_data[i].include

C18_StageConsistency ==
    /\ step \in {"upload", "edit", "visualize"}
    /\ step = "visualize" => final_spec # PyNone
    /\ final_spec # PyNone => step \in {"edit", "visualize"}
    /\ step = "upload" => final_spec = PyNone
\* Back at stage upload after a restart taken from the editor while a text
\* failed to parse: no document and no record is stored, while the uploader
\* and the editor's widgets still hold their state.
C18_Witness ==
    /\ step = "upload" /\ rerun
    /\ final_spec = PyNone /\ op_data = <<>>
    /\ widgets # <<>>
    /\ \E n \in DOMAIN widgets : ParseFails(widgets[n])
    /\ WsdlFiles(uploaded_files) # <<>>

====
